---------------------------- MODULE Spec2Model ----------------------------
(***************************************************************************)
(* Two notebooks of the repository, each a linear script of library calls: *)
(*   llm_parameter_eff_fine_tuning.ipynb  (LoRA fine-tuning of DistilBERT) *)
(*   custom_chatbot_langchain.ipynb       (RAG chatbot with LangChain)     *)
(* A run executes one notebook top to bottom.  Every library call may      *)
(* raise; the notebooks contain no try/except.                             *)
(***************************************************************************)
EXTENDS Naturals, Integers, Sequences, FiniteSets, TLC

(***************************************************************************)
(* Bounds of the model.                                                    *)
(***************************************************************************)
\* optimizer steps per epoch (the notebook has 50000 / 8 = 6250)
StepsPerEpoch == 2
\* validation losses are drawn from 1 .. MaxLoss
MaxLoss == 3
\* rows of data/character_descriptions.csv (the file has 55)
MaxRows == 2
\* characters in a cell of the CSV, when one row is concatenated on its own
MaxChars == 1
\* examples in an evaluation batch given to compute_metrics on its own
MaxExamples == 2
\* examples in an evaluation batch whose logits single out one class each
MaxConfident == 3
\* examples in a split of the dataset, when it is mapped on its own
MaxSplitLen == 2
\* examples that map hands to preprocess_function at once (the library's 1000)
BatchSize == 1

(***************************************************************************)
(* Hyperparameters and shapes written in the fine-tuning notebook.         *)
(***************************************************************************)
num_train_epochs == 12
hidden_dim == 768
ffn_dim == 3072
vocab_size == 30522
max_position == 512
num_labels == 3
num_layers == 6
lora_r == 64
dataloader_num_workers == 10

evaluation_strategy == "epoch"
save_strategy == "epoch"
load_best_model_at_end == TRUE

Losses == 1 .. MaxLoss
max_steps == num_train_epochs * StepsPerEpoch

(***************************************************************************)
(* The module tree of DistilBertForSequenceClassification, grouped.        *)
(***************************************************************************)
target_modules ==
    { "distilbert.transformer.layer.5.attention.q_lin",
      "distilbert.transformer.layer.5.attention.k_lin",
      "distilbert.transformer.layer.5.attention.v_lin",
      "distilbert.transformer.layer.5.attention.out_lin" }

HeadModules == { "pre_classifier", "classifier" }

Modules ==
    { "distilbert.embeddings",
      "distilbert.transformer.layer.0-4",
      "distilbert.transformer.layer.5.rest" } \cup target_modules \cup HeadModules

Linear(in, out) == in * out + out
LayerNorm(n) == 2 * n
\* parameters of one TransformerBlock outside its four attention projections
BlockRest == LayerNorm(hidden_dim) + Linear(hidden_dim, ffn_dim)
               + Linear(ffn_dim, hidden_dim) + LayerNorm(hidden_dim)
BlockAttention == 4 * Linear(hidden_dim, hidden_dim)

\* number of scalars in each group of the base model
Numel(m) ==
    CASE m = "distilbert.embeddings" ->
            vocab_size * hidden_dim + max_position * hidden_dim + LayerNorm(hidden_dim)
      [] m = "distilbert.transformer.layer.0-4" ->
            (num_layers - 1) * (BlockAttention + BlockRest)
      [] m = "distilbert.transformer.layer.5.rest" -> BlockRest
      [] m \in target_modules -> Linear(hidden_dim, hidden_dim)
      [] m = "pre_classifier" -> Linear(hidden_dim, hidden_dim)
      [] m = "classifier" -> Linear(hidden_dim, num_labels)

peft_config ==
    [ task_type |-> "SEQ_CLS",
      r |-> lora_r,
      target_modules |-> target_modules,
      bias |-> "none" ]

\* A parameter is <<kind, module>>: the module's own tensors ("base"), the
\* low-rank pair A, B injected next to it ("lora"), or the trainable copy
\* that PEFT keeps of a module to save ("modules_to_save").
BaseParams == { <<"base", m>> : m \in Modules }
LoraParams(cfg) == { <<"lora", m>> : m \in cfg.target_modules }
\* task_type SEQ_CLS: every module whose name ends with "classifier"
ModulesToSave(cfg) ==
    IF cfg.task_type = "SEQ_CLS" THEN { m \in Modules : m \in HeadModules } ELSE {}
SavedParams(cfg) == { <<"modules_to_save", m>> : m \in ModulesToSave(cfg) }

ParamNumel(p) ==
    IF p[1] = "lora" THEN lora_r * hidden_dim + hidden_dim * lora_r
    ELSE Numel(p[2])

VARIABLES
    notebook,        \* which notebook this run executes: "ft" or "cb"
    pc,              \* the statement about to execute
    status,          \* "running", "raised" (a call raised) or "finished"
    defined,         \* the notebook-level names bound so far
    params,          \* the tensors of base_model / peft_model: p -> [value, requires_grad]
    results_base,    \* what trainer_base.evaluate() evaluated: [evaluated, model]
    trainer,         \* state of trainer (TrainerState and position in train())
    checkpoints,     \* ./peft_multi_nli_results: global_step -> saved weights
    first_seen,      \* history: loss -> global_step of the first evaluation with it (0: never)
    adapter_dir,     \* ./peft_multi_nli: [written, tensors]
    exception,       \* where the exception shown in the cell output was raised, if any
    df,              \* the DataFrame: [rows, columns]
    documents,       \* the rows loaded as LangChain documents
    vectorstore,     \* the rows whose embeddings the FAISS index holds
    loop,            \* the comparison loop: [qi, lpc, retrieved, answer]
    chat_requests,   \* the chat completion requests sent so far
    retrievals,      \* the retriever invocations so far: [question, docs]
    printed,         \* the lines printed by the comparison loop
    api,             \* the OpenAI API key: where it is held and which client received what
    index_file,      \* a FAISS index saved on disk, if any: [exists, docs]
    chat_history,    \* the list object that is the default of chatbot_with_langchain's chat_history
    call             \* a call of a function of the notebooks on its own: [fn, args, result]

ftvars == << params, results_base, trainer, checkpoints, first_seen, adapter_dir >>
cbvars == << df, documents, vectorstore, loop, chat_requests, retrievals, printed,
            api, index_file, chat_history >>
vars == << notebook, pc, status, defined, exception, ftvars, cbvars, call >>


(***************************************************************************)
(* The cells of the fine-tuning notebook, in the order they are executed.  *)
(***************************************************************************)
FtCellsTuneFirst ==
    << "load_dataset", "show_examples", "load_tokenizer", "preprocess",
       "downsample", "load_model", "compute_metrics",
       "lora_config", "get_peft_model", "train", "evaluate_base", "save_pretrained" >>

FtCellsSaveFirst ==
    << "load_dataset", "show_examples", "load_tokenizer", "preprocess",
       "downsample", "load_model", "compute_metrics", "evaluate_base",
       "lora_config", "get_peft_model", "save_pretrained", "train" >>

FtCells ==
    << "load_dataset", "show_examples", "load_tokenizer", "preprocess",
       "downsample", "load_model", "compute_metrics", "evaluate_base",
       "lora_config", "get_peft_model", "train", "save_pretrained" >>

(***************************************************************************)
(* The statements of the chatbot notebook, in the order they are executed. *)
(***************************************************************************)
CbCellsLoopFirst ==
    << "load_dotenv", "set_api", "read_csv", "concat_text", "display",
       "def_without", "loop", "load_documents", "embeddings", "vectorstore",
       "chat_model", "retriever", "qa_chain", "def_with" >>

CbCells ==
    << "load_dotenv", "set_api", "read_csv", "concat_text", "display",
       "def_without", "load_documents", "embeddings", "vectorstore",
       "chat_model", "retriever", "qa_chain", "def_with", "loop" >>

questions ==
    << "Who is Jack and what issues is he facing?",
       "How is Sarah related to Jack?",
       "Who is Alice?" >>

Cells == IF notebook = "ft" THEN FtCells ELSE CbCells

IndexOf(seq, c) == CHOOSE i \in 1 .. Len(seq) : seq[i] = c

\* the statement executed after cell c has completed
NextCell(c) ==
    LET i == IndexOf(Cells, c) IN
    IF i = Len(Cells) THEN "end" ELSE Cells[i + 1]

\* cell c completes and binds the names in binds
Advance(c, binds) ==
    /\ pc' = NextCell(c)
    /\ defined' = defined \cup binds
    /\ status' = IF NextCell(c) = "end" THEN "finished" ELSE "running"
    /\ UNCHANGED << call, notebook, exception >>

\* cell c of notebook nb is about to run and the names it reads are bound
\* (an unbound name is a NameError: only Raise is enabled then)
AtCell(nb, c, needs) ==
    /\ notebook = nb
    /\ status = "running"
    /\ pc = c
    /\ needs \subseteq defined

NoParams == [p \in {} |-> 0]

\* from_pretrained: every tensor of the base model, trainable, as loaded
PretrainedParams == [p \in BaseParams |-> [value |-> 0, requires_grad |-> TRUE]]

NewTrainer ==
    [ tpc |-> "init", global_step |-> 0, eval_count |-> 0, save_count |-> 0,
      best_metric |-> 0, best_model_checkpoint |-> 0, workers |-> 0 ]

NoException == [cell |-> "", qi |-> 0]
NoAnswer == [via |-> "", question |-> "", context |-> {}, chat_history |-> << >>]
NewLoop == [qi |-> 1, lpc |-> "question", retrieved |-> {}, answer |-> NoAnswer]

\* None of Python, as the value of an API key
NoKey == "None"
\* no function is being called on its own
NoCall == [fn |-> "none"]

\* one page of the index: the row it was made from and the cell that is its content
Document(r) == [row |-> r, page_content |-> << r, "text" >>]

\* the kernel has just started: nothing is bound, nothing has run
Fresh ==
    /\ pc = Cells[1]
    /\ status = "running"
    /\ defined = {}
    /\ params = NoParams
    /\ results_base = [evaluated |-> FALSE, model |-> NoParams]
    /\ trainer = NewTrainer
    /\ checkpoints = NoParams
    /\ first_seen = [l \in Losses |-> 0]
    /\ adapter_dir = [written |-> FALSE, tensors |-> NoParams]
    /\ exception = NoException
    /\ df = [rows |-> {}, columns |-> {}]
    /\ documents = {}
    /\ vectorstore = {}
    /\ loop = NewLoop
    /\ chat_requests = << >>
    /\ retrievals = << >>
    /\ printed = << >>
    /\ chat_history = << >>

\* the process environment may or may not hold OPENAI_API_KEY; the module
\* attribute openai.api_key is None after import openai
FreshApi(env) ==
    [env |-> env, module_api_key |-> NoKey, openai_api_key |-> NoKey, received |-> {}]

\* the working directory may hold an index that an earlier program saved
NoIndexFile == [exists |-> FALSE, docs |-> {}]
StaleIndexFile == [exists |-> TRUE, docs |-> {Document(0)}]

Init ==
    /\ notebook \in {"ft", "cb"}
    /\ Fresh
    /\ api \in IF notebook = "cb" THEN {FreshApi(NoKey), FreshApi("sk-env")}
                ELSE {FreshApi(NoKey)}
    /\ index_file \in IF notebook = "cb" THEN {NoIndexFile, StaleIndexFile}
                       ELSE {NoIndexFile}
    /\ call = NoCall

LoadDataset ==
    /\ AtCell("ft", "load_dataset", {})
    /\ Advance("load_dataset", {"dataset"})
    /\ UNCHANGED << ftvars, cbvars >>

\* the cell loads the dataset a second time before printing examples
ShowExamples ==
    /\ AtCell("ft", "show_examples", {})
    /\ Advance("show_examples", {"label_map", "show_one_example_per_label", "dataset"})
    /\ UNCHANGED << ftvars, cbvars >>

LoadTokenizer ==
    /\ AtCell("ft", "load_tokenizer", {})
    /\ Advance("load_tokenizer", {"model_name", "tokenizer"})
    /\ UNCHANGED << ftvars, cbvars >>

Preprocess ==
    /\ AtCell("ft", "preprocess", {"dataset", "tokenizer"})
    /\ Advance("preprocess", {"preprocess_function", "tokenized_datasets"})
    /\ UNCHANGED << ftvars, cbvars >>

Downsample ==
    /\ AtCell("ft", "downsample", {"tokenized_datasets"})
    /\ Advance("downsample", {"train_dataset", "eval_dataset"})
    /\ UNCHANGED << ftvars, cbvars >>

LoadModel ==
    /\ AtCell("ft", "load_model", {"model_name"})
    /\ params' = PretrainedParams
    /\ Advance("load_model", {"base_model"})
    /\ UNCHANGED << results_base, trainer, checkpoints, first_seen, adapter_dir, cbvars >>

DefineComputeMetrics ==
    /\ AtCell("ft", "compute_metrics", {})
    /\ Advance("compute_metrics", {"compute_metrics"})
    /\ UNCHANGED << ftvars, cbvars >>

\* trainer_base.evaluate(): a forward pass over eval_dataset, no optimizer
EvaluateBaseTraining ==
    /\ AtCell("ft", "evaluate_base", {"base_model", "eval_dataset", "tokenizer", "compute_metrics"})
    /\ params' = [p \in DOMAIN params |->
                    IF params[p].requires_grad
                    THEN [params[p] EXCEPT !.value = 1] ELSE params[p]]
    /\ results_base' = [evaluated |-> TRUE, model |-> params']
    /\ Advance("evaluate_base", {"training_args_base", "trainer_base", "results_base"})
    /\ UNCHANGED << trainer, checkpoints, first_seen, adapter_dir, cbvars >>

EvaluateBase ==
    /\ AtCell("ft", "evaluate_base", {"base_model", "eval_dataset", "tokenizer", "compute_metrics"})
    /\ results_base' = [evaluated |-> TRUE, model |-> params]
    /\ Advance("evaluate_base", {"training_args_base", "trainer_base", "results_base"})
    /\ UNCHANGED << params, trainer, checkpoints, first_seen, adapter_dir, cbvars >>

DefineLora ==
    /\ AtCell("ft", "lora_config", {})
    /\ Advance("lora_config", {"target_modules", "peft_config"})
    /\ UNCHANGED << ftvars, cbvars >>

\* get_peft_model(model, cfg) changes the module tree of model in place: it
\* freezes every tensor of the model, injects a trainable low-rank pair next
\* to each target module and, for a classification task, puts a trainable
\* copy in front of each head module.
InjectAdapterNoFreeze(ps, cfg) ==
    [p \in DOMAIN ps \cup LoraParams(cfg) \cup SavedParams(cfg) |->
        CASE p[1] = "base" -> ps[p]
          [] p[1] = "lora" -> [value |-> 0, requires_grad |-> TRUE]
          [] p[1] = "modules_to_save" ->
                [value |-> ps[<<"base", p[2]>>].value, requires_grad |-> TRUE]]

InjectAdapter(ps, cfg) ==
    [p \in DOMAIN ps \cup LoraParams(cfg) \cup SavedParams(cfg) |->
        CASE p[1] = "base" -> [ps[p] EXCEPT !.requires_grad = FALSE]
          [] p[1] = "lora" -> [value |-> 0, requires_grad |-> TRUE]
          [] p[1] = "modules_to_save" ->
                [value |-> ps[<<"base", p[2]>>].value, requires_grad |-> TRUE]]

GetPeftModel ==
    /\ AtCell("ft", "get_peft_model", {"base_model", "peft_config"})
    /\ params' = InjectAdapter(params, peft_config)
    /\ Advance("get_peft_model", {"model", "peft_model", "device"})
    /\ UNCHANGED << results_base, trainer, checkpoints, first_seen, adapter_dir, cbvars >>

RECURSIVE SumNumel(_)
SumNumel(S) ==
    IF S = {} THEN 0
    ELSE LET p == CHOOSE q \in S : TRUE IN ParamNumel(p) + SumNumel(S \ {p})

\* peft_model.print_trainable_parameters()
TrainableParams(ps) == { p \in DOMAIN ps : ps[p].requires_grad }
TrainableCount(ps) == SumNumel(TrainableParams(ps))
AllCount(ps) == SumNumel(DOMAIN ps)

\* a strategy of "epoch" fires when an epoch has just ended, "steps" every
\* logging_steps optimizer steps, "no" never
logging_steps == 10
StrategyFires(strategy, g) ==
    CASE strategy = "epoch" -> g % StepsPerEpoch = 0
      [] strategy = "steps" -> g % logging_steps = 0
      [] OTHER -> FALSE

ShouldEvaluateEveryStep(g) == TRUE
ShouldEvaluate(g) == StrategyFires(evaluation_strategy, g)
ShouldSave(g) == StrategyFires(save_strategy, g)

\* where train() goes after optimizer step g and its evaluation / save
AfterStep(g) == IF g = max_steps THEN "finish" ELSE "step"

\* worker processes of the training DataLoader that live once optimizer step
\* g is done: they are started with the first batch of an epoch and stop
\* when the epoch's iterator is exhausted
WorkersAfterPersistent(g) == dataloader_num_workers
WorkersAfter(g) == IF g % StepsPerEpoch = 0 THEN 0 ELSE dataloader_num_workers

\* trainer = Trainer(model=peft_model, ...); trainer.train() begins
TrainBegin ==
    /\ AtCell("ft", "train", {"peft_model", "train_dataset", "eval_dataset",
                              "compute_metrics", "tokenizer"})
    /\ trainer.tpc = "init"
    /\ trainer' = [trainer EXCEPT !.tpc = "step"]
    /\ defined' = defined \cup {"training_args", "trainer"}
    /\ UNCHANGED << call, notebook, pc, status, exception, params, results_base,
                    checkpoints, first_seen, adapter_dir, cbvars >>

\* one optimizer step: every tensor that requires a gradient is updated
TrainingStep ==
    /\ AtCell("ft", "train", {})
    /\ trainer.tpc = "step"
    /\ trainer.global_step < max_steps
    /\ LET g == trainer.global_step + 1 IN
        /\ params' = [p \in DOMAIN params |->
                        IF params[p].requires_grad
                        THEN [params[p] EXCEPT !.value = g] ELSE params[p]]
        /\ trainer' = [trainer EXCEPT
                         !.global_step = g,
                         !.workers = WorkersAfter(g),
                         !.tpc = IF ShouldEvaluate(g) THEN "evaluate"
                                 ELSE IF ShouldSave(g) THEN "save"
                                 ELSE AfterStep(g)]
    /\ UNCHANGED << call, notebook, pc, status, defined, exception, results_base, checkpoints,
                    first_seen, adapter_dir, cbvars >>

\* metric_for_best_model defaults to the validation loss, lower is better
IsBetter(loss, best) == loss < best

\* an evaluation on eval_dataset inside train(); the loss is whatever the
\* model yields; the best metric so far and its checkpoint are tracked
Evaluate ==
    /\ AtCell("ft", "train", {})
    /\ trainer.tpc = "evaluate"
    /\ \E loss \in Losses :
        /\ trainer' = [trainer EXCEPT
                         !.eval_count = @ + 1,
                         !.best_metric =
                            IF trainer.best_model_checkpoint = 0
                               \/ IsBetter(loss, trainer.best_metric)
                            THEN loss ELSE @,
                         !.best_model_checkpoint =
                            IF trainer.best_model_checkpoint = 0
                               \/ IsBetter(loss, trainer.best_metric)
                            THEN trainer.global_step ELSE @,
                         !.tpc = IF ShouldSave(trainer.global_step) THEN "save"
                                 ELSE AfterStep(trainer.global_step)]
        /\ first_seen' = IF first_seen[loss] = 0
                         THEN [first_seen EXCEPT ![loss] = trainer.global_step]
                         ELSE first_seen
    /\ UNCHANGED << call, notebook, pc, status, defined, exception, params, results_base,
                    checkpoints, adapter_dir, cbvars >>

\* the tensors a PEFT model writes: those the adapter added, none of the base
AdapterStateAll(ps) == [p \in DOMAIN ps |-> ps[p].value]
AdapterState(ps) == [p \in { q \in DOMAIN ps : q[1] # "base" } |-> ps[p].value]

\* checkpoint-<global_step> is written under ./peft_multi_nli_results
SaveCheckpoint ==
    /\ AtCell("ft", "train", {})
    /\ trainer.tpc = "save"
    /\ checkpoints' = [g \in DOMAIN checkpoints \cup {trainer.global_step} |->
                         IF g = trainer.global_step THEN AdapterState(params)
                         ELSE checkpoints[g]]
    /\ trainer' = [trainer EXCEPT !.save_count = @ + 1,
                                  !.tpc = AfterStep(trainer.global_step)]
    /\ UNCHANGED << call, notebook, pc, status, defined, exception, params, results_base,
                    first_seen, adapter_dir, cbvars >>

\* the weights the model holds when train() returns
LastWeights(ps, tr, cks) == ps
RestoredWeights(ps, tr, cks) ==
    IF load_best_model_at_end /\ tr.best_model_checkpoint \in DOMAIN cks
    THEN [p \in DOMAIN ps |->
            IF p \in DOMAIN cks[tr.best_model_checkpoint]
            THEN [ps[p] EXCEPT !.value = cks[tr.best_model_checkpoint][p]]
            ELSE ps[p]]
    ELSE ps

\* the training loop is over: the best checkpoint is loaded, train() returns
TrainEnd ==
    /\ AtCell("ft", "train", {})
    /\ trainer.tpc = "finish"
    /\ params' = RestoredWeights(params, trainer, checkpoints)
    /\ trainer' = [trainer EXCEPT !.tpc = "returned"]
    /\ Advance("train", {})
    /\ UNCHANGED << results_base, checkpoints, first_seen, adapter_dir, cbvars >>

\* peft_model.save_pretrained("./peft_multi_nli")
SavePretrained ==
    /\ AtCell("ft", "save_pretrained", {"peft_model"})
    /\ adapter_dir' = [written |-> TRUE, tensors |-> AdapterState(params)]
    /\ Advance("save_pretrained", {})
    /\ UNCHANGED << params, results_base, trainer, checkpoints, first_seen, cbvars >>

(***************************************************************************)
(* The chatbot notebook.                                                   *)
(***************************************************************************)
\* load_dotenv(): a variable the environment already holds is kept; one it
\* lacks is set if the .env file, when there is one, defines it
LoadDotenv ==
    /\ AtCell("cb", "load_dotenv", {})
    /\ \E k \in IF api.env = NoKey THEN {NoKey, "sk-dotenv"} ELSE {api.env} :
          api' = [api EXCEPT !.env = k]
    /\ Advance("load_dotenv", {})
    /\ UNCHANGED << ftvars, df, documents, vectorstore, loop, chat_requests, retrievals,
                    printed, index_file, chat_history >>

\* openai.api_base = "https://openai.vocareum.com/v1"
\* openai_api_key = os.getenv("OPENAI_API_KEY")
SetApi ==
    /\ AtCell("cb", "set_api", {})
    /\ api' = [api EXCEPT !.openai_api_key = api.env]
    /\ Advance("set_api", {"openai.api_base", "openai_api_key"})
    /\ UNCHANGED << ftvars, df, documents, vectorstore, loop, chat_requests, retrievals,
                    printed, index_file, chat_history >>

\* the key a client authenticates with: the argument, or OPENAI_API_KEY of
\* the environment when the argument is None
ClientKey(passed, env) == IF passed # NoKey THEN passed ELSE env

\* a client is constructed with api_key = openai.api_key; with no key at all
\* the constructor raises
Construct(client) ==
    /\ ClientKey(api.module_api_key, api.env) # NoKey
    /\ api' = [api EXCEPT !.received = @ \cup
                  {[client |-> client, api_key |-> api.module_api_key,
                    used |-> ClientKey(api.module_api_key, api.env)]}]

CsvColumns == {"Name", "Description", "Medium", "Setting"}

\* df = pd.read_csv('data/character_descriptions.csv')
ReadCsv ==
    /\ AtCell("cb", "read_csv", {})
    /\ \E n \in 1 .. MaxRows : df' = [rows |-> 1 .. n, columns |-> CsvColumns]
    /\ Advance("read_csv", {"df"})
    /\ UNCHANGED << ftvars, api, index_file, chat_history, documents, vectorstore, loop, chat_requests,
                    retrievals, printed >>

\* df['text'] = df['Name'] + ": " + df['Description'] + ...
ConcatText ==
    /\ AtCell("cb", "concat_text", {"df"})
    /\ CsvColumns \subseteq df.columns
    /\ df' = [df EXCEPT !.columns = @ \cup {"text"}]
    /\ Advance("concat_text", {})
    /\ UNCHANGED << ftvars, api, index_file, chat_history, documents, vectorstore, loop, chat_requests,
                    retrievals, printed >>

\* df[['Name', "Description", "text"]].head() and df.shape
Display ==
    /\ AtCell("cb", "display", {"df"})
    /\ {"Name", "Description", "text"} \subseteq df.columns
    /\ Advance("display", {})
    /\ UNCHANGED << ftvars, cbvars >>

DefWithout ==
    /\ AtCell("cb", "def_without", {})
    /\ Advance("def_without", {"chatbot_without_customization"})
    /\ UNCHANGED << ftvars, cbvars >>

\* DataFrameLoader(df, page_content_column='text').load(): one document per row
LoadDocuments ==
    /\ AtCell("cb", "load_documents", {"df"})
    /\ "text" \in df.columns
    /\ documents' = { Document(r) : r \in df.rows }
    /\ Advance("load_documents", {"loader", "documents"})
    /\ UNCHANGED << ftvars, api, index_file, chat_history, df, vectorstore, loop, chat_requests, retrievals, printed >>

\* OpenAIEmbeddings(openai_api_key=openai.api_key, openai_api_base=openai.api_base)
Embeddings ==
    /\ AtCell("cb", "embeddings", {"openai.api_base"})
    /\ Construct("OpenAIEmbeddings")
    /\ Advance("embeddings", {"embeddings"})
    /\ UNCHANGED << ftvars, df, documents, vectorstore, loop, chat_requests, retrievals,
                    printed, index_file, chat_history >>

\* FAISS.from_documents(documents, embeddings): embeds and indexes every
\* document, in memory; no save_local, no load_local
BuildVectorstoreFromDisk ==
    /\ AtCell("cb", "vectorstore", {"documents", "embeddings"})
    /\ vectorstore' = IF index_file.exists THEN index_file.docs ELSE documents
    /\ index_file' = [exists |-> TRUE, docs |-> vectorstore']
    /\ Advance("vectorstore", {"vectorstore"})
    /\ UNCHANGED << ftvars, api, chat_history, df, documents, loop, chat_requests, retrievals, printed >>

BuildVectorstore ==
    /\ AtCell("cb", "vectorstore", {"documents", "embeddings"})
    /\ vectorstore' = documents
    /\ Advance("vectorstore", {"vectorstore"})
    /\ UNCHANGED << ftvars, api, index_file, chat_history, df, documents, loop, chat_requests, retrievals, printed >>

\* ChatOpenAI(model_name="gpt-3.5-turbo", openai_api_key=openai.api_key, ...)
ChatModel ==
    /\ AtCell("cb", "chat_model", {"openai.api_base"})
    /\ Construct("ChatOpenAI")
    /\ Advance("chat_model", {"chat_model"})
    /\ UNCHANGED << ftvars, df, documents, vectorstore, loop, chat_requests, retrievals,
                    printed, index_file, chat_history >>

Retriever ==
    /\ AtCell("cb", "retriever", {"vectorstore"})
    /\ Advance("retriever", {"retriever"})
    /\ UNCHANGED << ftvars, cbvars >>

QaChain ==
    /\ AtCell("cb", "qa_chain", {"chat_model", "retriever"})
    /\ Advance("qa_chain", {"qa_chain"})
    /\ UNCHANGED << ftvars, cbvars >>

DefWith ==
    /\ AtCell("cb", "def_with", {})
    /\ Advance("def_with", {"chatbot_with_langchain"})
    /\ UNCHANGED << ftvars, cbvars >>

InLoop(at, needs) ==
    /\ AtCell("cb", "loop", needs)
    /\ loop.lpc = at

LoopUnchanged == UNCHANGED << call, notebook, pc, status, defined, exception, ftvars,
                             df, documents, vectorstore, index_file >>

\* print(f"Question: {q}\n"); print("Answer WITHOUT customization:")
PrintQuestion ==
    /\ InLoop("question", {})
    /\ printed' = Append(printed, [qi |-> loop.qi, line |-> "question", text |-> questions[loop.qi]])
    /\ loop' = [loop EXCEPT !.lpc = "call_without"]
    /\ LoopUnchanged
    /\ UNCHANGED << api, chat_history, chat_requests, retrievals >>

\* chatbot_without_customization(q): a client is constructed and sends one
\* chat request, messages=[{"role": "user", "content": question}]; the answer
\* is identified with the request that produced it
CallWithoutReadsDocuments ==
    /\ InLoop("call_without", {"chatbot_without_customization"})
    /\ Construct("openai.OpenAI")
    /\ LET request == [via |-> "openai", question |-> questions[loop.qi],
                        context |-> documents, chat_history |-> << >>] IN
        /\ chat_requests' = Append(chat_requests, request)
        /\ loop' = [loop EXCEPT !.lpc = "print_without", !.answer = request]
    /\ LoopUnchanged
    /\ UNCHANGED << chat_history, retrievals, printed >>

CallWithout ==
    /\ InLoop("call_without", {"chatbot_without_customization"})
    /\ Construct("openai.OpenAI")
    /\ LET request == [via |-> "openai", question |-> questions[loop.qi],
                        context |-> {}, chat_history |-> << >>] IN
        /\ chat_requests' = Append(chat_requests, request)
        /\ loop' = [loop EXCEPT !.lpc = "print_without", !.answer = request]
    /\ LoopUnchanged
    /\ UNCHANGED << chat_history, retrievals, printed >>

\* print(<answer>); print("---"); print("Answer WITH LangChain RAG customization:")
PrintWithout ==
    /\ InLoop("print_without", {})
    /\ printed' = Append(printed, [qi |-> loop.qi, line |-> "without", text |-> loop.answer])
    /\ loop' = [loop EXCEPT !.lpc = "build_chain", !.answer = NoAnswer]
    /\ LoopUnchanged
    /\ UNCHANGED << api, chat_history, chat_requests, retrievals >>

\* chatbot_with_langchain(q): qa_chain = ConversationalRetrievalChain.from_llm(...)
BuildChain ==
    /\ InLoop("build_chain", {"chatbot_with_langchain", "chat_model", "retriever"})
    /\ loop' = [loop EXCEPT !.lpc = "retrieve", !.retrieved = {}]
    /\ LoopUnchanged
    /\ UNCHANGED << api, chat_history, chat_requests, retrievals, printed >>

\* qa_chain.invoke, first half: with a non-empty chat history the question is
\* first condensed by the chat model; then the retriever searches the index
Retrieve ==
    /\ InLoop("retrieve", {})
    /\ \E docs \in SUBSET vectorstore \ {{}} :
        /\ retrievals' = Append(retrievals, [question |-> questions[loop.qi], docs |-> docs])
        /\ loop' = [loop EXCEPT !.lpc = "generate", !.retrieved = docs]
    /\ chat_requests' =
          IF chat_history = << >> THEN chat_requests
          ELSE Append(chat_requests, [via |-> "condense", question |-> questions[loop.qi],
                                      context |-> {}, chat_history |-> chat_history])
    /\ LoopUnchanged
    /\ UNCHANGED << api, chat_history, printed >>

\* qa_chain.invoke, second half: the chat model answers from the retrieved documents
GenerateBeforeRetrieve ==
    /\ InLoop("retrieve", {})
    /\ LET request == [via |-> "langchain", question |-> questions[loop.qi],
                        context |-> {}, chat_history |-> chat_history] IN
        /\ chat_requests' = Append(chat_requests, request)
        /\ loop' = [loop EXCEPT !.lpc = "print_with", !.answer = request]
    /\ LoopUnchanged
    /\ UNCHANGED << api, chat_history, retrievals, printed >>

\* as above, but the call leaves the exchange in the list it was given
GenerateRemembers ==
    /\ InLoop("generate", {})
    /\ LET request == [via |-> "langchain", question |-> questions[loop.qi],
                        context |-> loop.retrieved, chat_history |-> chat_history] IN
        /\ chat_requests' = Append(chat_requests, request)
        /\ loop' = [loop EXCEPT !.lpc = "print_with", !.answer = request]
    /\ chat_history' = Append(chat_history, questions[loop.qi])
    /\ LoopUnchanged
    /\ UNCHANGED << api, retrievals, printed >>

Generate ==
    /\ InLoop("generate", {})
    /\ LET request == [via |-> "langchain", question |-> questions[loop.qi],
                        context |-> loop.retrieved, chat_history |-> chat_history] IN
        /\ chat_requests' = Append(chat_requests, request)
        /\ loop' = [loop EXCEPT !.lpc = "print_with", !.answer = request]
    /\ LoopUnchanged
    /\ UNCHANGED << api, chat_history, retrievals, printed >>

\* print(<answer>); print("=" * 80); the for loop takes the next question
PrintWith ==
    /\ InLoop("print_with", {})
    /\ printed' = Append(printed, [qi |-> loop.qi, line |-> "with", text |-> loop.answer])
    /\ IF loop.qi < Len(questions)
       THEN /\ loop' = [qi |-> loop.qi + 1, lpc |-> "question", retrieved |-> {},
                        answer |-> NoAnswer]
            /\ UNCHANGED << pc, status, defined >>
       ELSE /\ loop' = [loop EXCEPT !.lpc = "over", !.retrieved = {}, !.answer = NoAnswer]
            /\ Advance("loop", {"questions"})
    /\ UNCHANGED << call, notebook, exception, ftvars, df, documents, vectorstore,
                    chat_requests, retrievals, api, index_file, chat_history >>

NextCb ==
    \/ LoadDotenv \/ SetApi \/ ReadCsv \/ ConcatText \/ Display \/ DefWithout
    \/ LoadDocuments \/ Embeddings \/ BuildVectorstore \/ ChatModel \/ Retriever
    \/ QaChain \/ DefWith \/ PrintQuestion \/ CallWithout \/ PrintWithout
    \/ BuildChain \/ Retrieve \/ Generate \/ PrintWith

\* a call of the current cell raises: nothing catches it, the run stops
RaiseCaught ==
    /\ status = "running"
    /\ pc # "end"
    /\ pc' = NextCell(pc)
    /\ status' = IF NextCell(pc) = "end" THEN "finished" ELSE "running"
    /\ exception' = [cell |-> pc, qi |-> loop.qi]
    /\ UNCHANGED << call, notebook, defined, ftvars, cbvars >>

Raise ==
    /\ status = "running"
    /\ pc # "end"
    /\ status' = "raised"
    /\ exception' = [cell |-> pc, qi |-> loop.qi]
    /\ UNCHANGED << call, notebook, pc, defined, ftvars, cbvars >>

(***************************************************************************)
(* The expression that makes the 'text' column, on one row.  A string is   *)
(* the sequence of its characters.                                         *)
(***************************************************************************)
Alphabet == {"a", ","}
Strings == UNION { [1 .. n -> Alphabet] : n \in 0 .. MaxChars }

\* str + str
StrAdd(a, b) == [i \in 1 .. Len(a) + Len(b) |-> IF i <= Len(a) THEN a[i] ELSE b[i - Len(a)]]

\* df['Name'] + ": " + df['Description'] + " (" + df['Medium'] + ", " + df['Setting'] + ")"
TextOfSettingFirst(row) ==
    StrAdd(StrAdd(StrAdd(StrAdd(StrAdd(StrAdd(StrAdd(
        row["Name"], << ":", " " >>), row["Description"]), << " ", "(" >>),
        row["Setting"]), << ",", " " >>), row["Medium"]), << ")" >>)

TextOf(row) ==
    StrAdd(StrAdd(StrAdd(StrAdd(StrAdd(StrAdd(StrAdd(
        row["Name"], << ":", " " >>), row["Description"]), << " ", "(" >>),
        row["Medium"]), << ",", " " >>), row["Setting"]), << ")" >>)

\* df['text'] = ...: the column is added, the others stay
WithText(row) ==
    [c \in DOMAIN row \cup {"text"} |-> IF c = "text" THEN TextOf(row) ELSE row[c]]

\* nothing of the two notebooks runs while a function is called on its own
Idle(nb) ==
    /\ notebook = nb
    /\ Fresh
    /\ api = FreshApi(NoKey)
    /\ index_file = NoIndexFile

IdleUnchanged == UNCHANGED << notebook, pc, status, defined, exception, ftvars, cbvars >>

InitText ==
    /\ Idle("cb")
    /\ call \in { [fn |-> "concat_text", args |-> row, done |-> FALSE, result |-> row] :
                     row \in [CsvColumns -> Strings] }

ApplyConcatText ==
    /\ call.fn = "concat_text"
    /\ ~call.done
    /\ call' = [call EXCEPT !.done = TRUE, !.result = WithText(call.args)]
    /\ IdleUnchanged

SpecText == InitText /\ [][ApplyConcatText]_vars

(***************************************************************************)
(* compute_metrics, on one (predictions, labels) pair.  Classes are        *)
(* numbered from 0; a fraction is << numerator, denominator >> in lowest   *)
(* terms.                                                                  *)
(***************************************************************************)
Classes == 0 .. num_labels - 1
\* the values a logit takes: enough for a unique maximum and for every tie
Logits == {0, 1}

RECURSIVE GCD(_, _)
GCD(a, b) == IF b = 0 THEN a ELSE GCD(b, a % b)

\* n / d; sklearn scores a class with an empty denominator as 0
Frac(n, d) == IF d = 0 THEN << 0, 1 >> ELSE << n \div GCD(n, d), d \div GCD(n, d) >>
FracAdd(a, b) == Frac(a[1] * b[2] + b[1] * a[2], a[2] * b[2])
FracScale(k, a) == Frac(k * a[1], a[2])

\* torch.argmax(logits, dim=-1) of one example: the index of the first maximum
ArgminOf(v) == CHOOSE c \in Classes : \A k \in Classes : v[c] <= v[k] /\ (k < c => v[k] > v[c])
ArgmaxOf(v) == CHOOSE c \in Classes : \A k \in Classes : v[c] >= v[k] /\ (k < c => v[k] < v[c])

Argmax(predictions) == [i \in DOMAIN predictions |-> ArgmaxOf(predictions[i])]

\* the classes seen in the labels or in the predictions (labels=None)
PresentLabels(labels, preds) ==
    { labels[i] : i \in DOMAIN labels } \cup { preds[i] : i \in DOMAIN preds }

TruePositives(labels, preds, c) ==
    Cardinality({ i \in DOMAIN labels : labels[i] = c /\ preds[i] = c })
Predicted(preds, c) == Cardinality({ i \in DOMAIN preds : preds[i] = c })
Support(labels, c) == Cardinality({ i \in DOMAIN labels : labels[i] = c })

PrecisionOf(labels, preds, c) == Frac(TruePositives(labels, preds, c), Predicted(preds, c))
RecallOf(labels, preds, c) == Frac(TruePositives(labels, preds, c), Support(labels, c))
F1Of(labels, preds, c) ==
    Frac(2 * TruePositives(labels, preds, c), Predicted(preds, c) + Support(labels, c))

\* average='macro': every class weighs the same
SupportWeights(labels, S) == [c \in S |-> Support(labels, c)]
MacroWeights(labels, S) == [c \in S |-> 1]

RECURSIVE WeightedSum(_, _, _)
WeightedSum(values, weights, S) ==
    IF S = {} THEN << 0, 1 >>
    ELSE LET c == CHOOSE k \in S : TRUE IN
         FracAdd(FracScale(weights[c], values[c]), WeightedSum(values, weights, S \ {c}))

RECURSIVE SumOf(_, _)
SumOf(weights, S) ==
    IF S = {} THEN 0
    ELSE LET c == CHOOSE k \in S : TRUE IN weights[c] + SumOf(weights, S \ {c})

\* np.average(values, weights=weights)
Average(values, weights) ==
    LET total == WeightedSum(values, weights, DOMAIN values) IN
    Frac(total[1], total[2] * SumOf(weights, DOMAIN values))

compute_metrics(predictions, labels) ==
    LET preds == Argmax(predictions)
        S == PresentLabels(labels, preds)
        w == MacroWeights(labels, S)
    IN  [ preds |-> preds,
          metrics |->
            [ f1_score |-> Average([c \in S |-> F1Of(labels, preds, c)], w),
              precision |-> Average([c \in S |-> PrecisionOf(labels, preds, c)], w),
              recall |-> Average([c \in S |-> RecallOf(labels, preds, c)], w) ] ]

EvalPreds ==
    UNION { [1 .. n -> [predictions : [Classes -> Logits], labels : Classes]] :
              n \in 1 .. MaxExamples }

\* compute_metrics is about to be called with eval_pred = (predictions, labels)
Called(e) ==
    [ fn |-> "compute_metrics",
      args |-> [predictions |-> [i \in DOMAIN e |-> e[i].predictions],
                labels |-> [i \in DOMAIN e |-> e[i].labels]],
      done |-> FALSE,
      result |-> [preds |-> << >>, metrics |-> << >>] ]

InitMetrics ==
    /\ Idle("ft")
    /\ call \in { Called(e) : e \in EvalPreds }

\* logits of a model that is sure of class c
OneHot(c) == [k \in Classes |-> IF k = c THEN 1 ELSE 0]

ConfidentEvalPreds ==
    UNION { [1 .. n -> [predictions : { OneHot(c) : c \in Classes }, labels : Classes]] :
              n \in 1 .. MaxConfident }

InitMacro ==
    /\ Idle("ft")
    /\ call \in { Called(e) : e \in ConfidentEvalPreds }

ApplyComputeMetrics ==
    /\ call.fn = "compute_metrics"
    /\ ~call.done
    /\ call' = [call EXCEPT !.done = TRUE,
                            !.result = compute_metrics(call.args.predictions, call.args.labels)]
    /\ IdleUnchanged

SpecMetrics == InitMetrics /\ [][ApplyComputeMetrics]_vars
SpecMacro == InitMacro /\ [][ApplyComputeMetrics]_vars

(***************************************************************************)
(* dataset.map(preprocess_function, batched=True, remove_columns=...).     *)
(* A split is a sequence of examples, an example a record of its columns;  *)
(* a text is the number that identifies it.                                *)
(***************************************************************************)
Splits == {"train", "validation_matched", "validation_mismatched"}
OriginalColumns == {"premise", "hypothesis", "label", "genre"}

\* tokenizer(premise, hypothesis, padding="max_length", truncation=True)
Tokenize(premise, hypothesis) ==
    [ input_ids |-> << 101, premise, 102, hypothesis, 102 >>,
      attention_mask |-> << 1, 1, 1, 1, 1 >> ]

\* a batch as map passes it: column -> list of the examples' values
Columns(batch) == [c \in OriginalColumns |-> [i \in DOMAIN batch |-> batch[i][c]]]

preprocess_function(examples) ==
    LET n == DOMAIN examples["premise"]
        tokenized_inputs == [i \in n |-> Tokenize(examples["premise"][i], examples["hypothesis"][i])]
    IN  [ input_ids |-> [i \in n |-> tokenized_inputs[i].input_ids],
          attention_mask |-> [i \in n |-> tokenized_inputs[i].attention_mask],
          labels |-> examples["label"] ]

\* the columns of a mapped example: the input columns not removed, then
\* those the function returned
RemoveNoColumns(example, remove_columns) == example
RemoveColumns(example, remove_columns) ==
    [c \in DOMAIN example \ remove_columns |-> example[c]]

MapBatch(batch, remove_columns) ==
    LET out == preprocess_function(Columns(batch)) IN
    [i \in DOMAIN batch |->
        LET kept == RemoveColumns(batch[i], remove_columns) IN
        [c \in DOMAIN kept \cup DOMAIN out |->
            IF c \in DOMAIN out THEN out[c][i] ELSE kept[c]]]

\* one split: consecutive batches of BatchSize examples, results concatenated
RECURSIVE MapSplit(_, _)
MapSplit(examples, remove_columns) ==
    IF Len(examples) <= BatchSize THEN MapBatch(examples, remove_columns)
    ELSE MapBatch(SubSeq(examples, 1, BatchSize), remove_columns)
            \o MapSplit(SubSeq(examples, BatchSize + 1, Len(examples)), remove_columns)

\* DatasetDict.map: every split, with remove_columns = dataset["train"].column_names
MapDataset(dataset) ==
    [s \in DOMAIN dataset |-> MapSplit(dataset[s], OriginalColumns)]

LabelLists == UNION { [1 .. n -> Classes] : n \in 0 .. MaxSplitLen }

DatasetOf(labels) ==
    [s \in Splits |->
        [i \in DOMAIN labels[s] |->
            [premise |-> 2 * i, hypothesis |-> 2 * i + 1, label |-> labels[s][i],
             genre |-> "fiction"]]]

InitMap ==
    /\ Idle("ft")
    /\ call \in { [fn |-> "map", args |-> DatasetOf(labels), done |-> FALSE,
                    result |-> DatasetOf(labels)] : labels \in [Splits -> LabelLists] }

ApplyMap ==
    /\ call.fn = "map"
    /\ ~call.done
    /\ call' = [call EXCEPT !.done = TRUE, !.result = MapDataset(call.args)]
    /\ IdleUnchanged

SpecMap == InitMap /\ [][ApplyMap]_vars

NextFt ==
    \/ LoadDataset \/ ShowExamples \/ LoadTokenizer \/ Preprocess \/ Downsample
    \/ LoadModel \/ DefineComputeMetrics \/ EvaluateBase \/ DefineLora
    \/ GetPeftModel \/ TrainBegin \/ TrainingStep \/ Evaluate \/ SaveCheckpoint
    \/ TrainEnd \/ SavePretrained

Next == NextFt \/ NextCb \/ Raise

Spec == Init /\ [][Next]_vars

(***************************************************************************)
(* Properties.                                                             *)
(***************************************************************************)
AdapterInjected == \E p \in DOMAIN params : p[1] # "base"

\* C1: the baseline evaluation completes before any adapter is injected and
\* before any training step runs, so results_base describes the model as
\* loaded: no adapter tensor, no tensor updated.
BaselineBeforeFineTuning ==
    /\ (AdapterInjected \/ trainer.tpc # "init" \/ trainer.global_step > 0)
          => results_base.evaluated
    /\ results_base.evaluated => results_base.model = PretrainedParams

BaselineThenFineTuned ==
    /\ results_base.evaluated
    /\ AdapterInjected
    /\ trainer.global_step > 0

LangchainRequests == SelectSeq(chat_requests, LAMBDA r : r.via = "langchain")

\* C2: every answer of chatbot_with_langchain is generated from a request
\* that carries the documents retrieved from the vector store earlier in the
\* same call; no such answer exists without its retrieval.
RetrievalBeforeAnswer ==
    /\ Len(LangchainRequests) <= Len(retrievals)
    /\ \A i \in 1 .. Len(LangchainRequests) :
          /\ LangchainRequests[i].question = retrievals[i].question
          /\ LangchainRequests[i].context = retrievals[i].docs
          /\ retrievals[i].docs # {}
          /\ retrievals[i].docs \subseteq vectorstore
    /\ \A i \in 1 .. Len(printed) :
          printed[i].line = "with" =>
              /\ printed[i].text.via = "langchain"
              /\ printed[i].text.context # {}
    /\ loop.lpc = "print_with" => loop.answer.context = loop.retrieved

CustomAnswerPrinted ==
    \E i \in 1 .. Len(printed) :
        /\ printed[i].line = "with"
        /\ printed[i].text.context # {}

\* C3 as stated: during trainer.train() every tensor of the base model keeps
\* its value and the only tensors updated are the low-rank matrices of the
\* four target modules.
OnlyLoraMatricesTrained ==
    [][pc = "train" =>
          \A p \in DOMAIN params :
              /\ p[1] = "base" => params'[p] = params[p]
              /\ params'[p] # params[p] => p \in LoraParams(peft_config)]_vars

\* C3 amended: during trainer.train() every tensor of the base model keeps
\* its value; the tensors updated are the low-rank matrices of the four
\* target modules and the trainable copies of the classification head
\* (pre_classifier, classifier) that task_type SEQ_CLS adds: 986,115
\* trainable scalars of 67,941,894, as print_trainable_parameters reports.
LoraAndHeadTrained ==
    /\ [][pc = "train" =>
            \A p \in DOMAIN params :
                /\ p[1] = "base" => params'[p] = params[p]
                /\ params'[p] # params[p] =>
                      p \in LoraParams(peft_config) \cup SavedParams(peft_config)]_vars
    /\ [](AdapterInjected =>
            /\ TrainableParams(params) = LoraParams(peft_config) \cup SavedParams(peft_config)
            /\ TrainableCount(params) = 986115
            /\ AllCount(params) = 67941894)

HeadAndLoraUpdated ==
    /\ AdapterInjected
    /\ \A m \in target_modules : params[<<"lora", m>>].value > 0
    /\ \A m \in HeadModules : params[<<"modules_to_save", m>>].value > 0
    /\ \A m \in Modules : params[<<"base", m>>].value = 0

\* C4: the fine-tuning notebook runs dataset load, tokenization, model load,
\* adapter injection, training, checkpoint save in this order, each after
\* the previous one has completed; the adapter directory is written only
\* after train() has returned and training starts only after injection.
FineTuningOrder ==
    /\ "tokenized_datasets" \in defined => "dataset" \in defined
    /\ params # NoParams => "tokenized_datasets" \in defined
    /\ AdapterInjected => "base_model" \in defined /\ pc # "load_model"
    /\ trainer.tpc # "init" => AdapterInjected /\ "peft_model" \in defined
    /\ trainer.global_step > 0 => AdapterInjected
    /\ adapter_dir.written => trainer.tpc = "returned"
    /\ pc = "save_pretrained" => trainer.tpc = "returned"

AdapterSavedAfterTraining ==
    /\ adapter_dir.written
    /\ trainer.global_step = max_steps

AnswerRequests == SelectSeq(chat_requests, LAMBDA r : r.via \in {"openai", "langchain"})
AnswerLines == SelectSeq(printed, LAMBDA l : l.line \in {"without", "with"})

ChatbotSetupOrder ==
    /\ "text" \in df.columns => "df" \in defined
    /\ documents # {} => "text" \in df.columns
    /\ vectorstore # {} => documents # {} /\ "embeddings" \in defined
    /\ "retriever" \in defined => vectorstore # {}
    /\ "qa_chain" \in defined => "retriever" \in defined /\ "chat_model" \in defined
    /\ (chat_requests # << >> \/ printed # << >>) =>
          /\ vectorstore # {}
          /\ "retriever" \in defined
          /\ "qa_chain" \in defined

\* C5 as stated: CSV load, text concatenation, embedding and vector store
\* construction, retrieval chain construction, question answering loop and
\* printed comparison are consecutive steps, each starting only after the
\* previous one has completed: nothing is printed before the question
\* answering loop has answered every question.
ChatbotStagesSequential ==
    /\ ChatbotSetupOrder
    /\ AnswerLines # << >> => Len(AnswerRequests) = 2 * Len(questions)

\* C5 amended: CSV load, text concatenation, embedding and vector store
\* construction and retrieval chain construction run in this order before
\* the question answering loop; no question is answered before the vector
\* store and the retriever have been built; inside the loop each answer is
\* printed as soon as it is produced, before the next request is made.
ChatbotStagesInterleaved ==
    /\ ChatbotSetupOrder
    /\ Len(AnswerLines) <= Len(AnswerRequests)
    /\ Len(AnswerRequests) <= Len(AnswerLines) + 1
    /\ \A i \in 1 .. Len(AnswerLines) : AnswerLines[i].text = AnswerRequests[i]

AnswerPrintedMidLoop ==
    /\ Len(AnswerLines) = 1
    /\ Len(AnswerRequests) = 2
    /\ loop.qi = 1

\* C6: an exception propagates unhandled: the run stops at the statement that
\* raised and nothing changes afterwards; if train() raised, ./peft_multi_nli
\* is not written; if a chatbot call raised for question k, nothing is
\* printed for a later question.
ExceptionStopsRun ==
    /\ [](exception # NoException =>
            /\ status = "raised"
            /\ pc = exception.cell
            /\ exception.cell = "train" => ~adapter_dir.written
            /\ exception.cell = "loop" =>
                  /\ loop.qi = exception.qi
                  /\ \A i \in 1 .. Len(printed) : printed[i].qi <= exception.qi)
    /\ [][exception # NoException => UNCHANGED vars]_vars

TrainRaisedMidway ==
    /\ exception.cell = "train"
    /\ trainer.save_count > 0
    /\ trainer.tpc = "step"

SeenLosses == { l \in Losses : first_seen[l] # 0 }
LowestLoss == CHOOSE l \in SeenLosses : \A k \in SeenLosses : l <= k

\* C7: when train() returns, the model holds the weights of the epoch-end
\* checkpoint whose validation loss is the lowest of all 12 evaluations (the
\* first such checkpoint), which need not be the last one, and the adapter
\* saved afterwards is that checkpoint's adapter.
BestCheckpointRestored ==
    trainer.tpc = "returned" =>
        /\ trainer.eval_count = num_train_epochs
        /\ trainer.best_metric = LowestLoss
        /\ trainer.best_model_checkpoint = first_seen[LowestLoss]
        /\ first_seen[LowestLoss] \in DOMAIN checkpoints
        /\ AdapterState(params) = checkpoints[first_seen[LowestLoss]]
        /\ adapter_dir.written =>
              adapter_dir.tensors = checkpoints[first_seen[LowestLoss]]

EarlierCheckpointSaved ==
    /\ adapter_dir.written
    /\ trainer.best_model_checkpoint = 3 * StepsPerEpoch
    /\ first_seen[1] = 3 * StepsPerEpoch
    /\ \A p \in DOMAIN adapter_dir.tensors : adapter_dir.tensors[p] = 3 * StepsPerEpoch

EpochsCompleted == trainer.global_step \div StepsPerEpoch
AtEpochEnd == trainer.global_step > 0 /\ trainer.global_step % StepsPerEpoch = 0

\* C8: inside train() each of the 12 epochs is followed by exactly one
\* evaluation and exactly one checkpoint save, and neither happens in the
\* middle of an epoch.
EvaluateAndSaveEachEpoch ==
    /\ trainer.tpc \in {"init", "step"} =>
          /\ trainer.eval_count = EpochsCompleted
          /\ trainer.save_count = EpochsCompleted
    /\ trainer.tpc = "evaluate" =>
          /\ AtEpochEnd
          /\ trainer.eval_count = EpochsCompleted - 1
          /\ trainer.save_count = EpochsCompleted - 1
    /\ trainer.tpc = "save" =>
          /\ AtEpochEnd
          /\ trainer.eval_count = EpochsCompleted
          /\ trainer.save_count = EpochsCompleted - 1
    /\ trainer.tpc \in {"finish", "returned"} =>
          /\ trainer.global_step = num_train_epochs * StepsPerEpoch
          /\ trainer.eval_count = num_train_epochs
          /\ trainer.save_count = num_train_epochs
    /\ DOMAIN checkpoints = { e * StepsPerEpoch : e \in 1 .. trainer.save_count }

TwelveEvaluationsAndSaves ==
    /\ trainer.tpc = "returned"
    /\ trainer.eval_count = 12
    /\ trainer.save_count = 12
    /\ Cardinality(DOMAIN checkpoints) = 12

\* C9: peft_model.save_pretrained("./peft_multi_nli") writes the tensors of
\* the adapter, with the values the model holds, and no tensor of the base
\* model.
OnlyAdapterSaved ==
    adapter_dir.written =>
        /\ DOMAIN adapter_dir.tensors \cap BaseParams = {}
        /\ DOMAIN adapter_dir.tensors =
              LoraParams(peft_config) \cup SavedParams(peft_config)
        /\ \A p \in DOMAIN adapter_dir.tensors :
              adapter_dir.tensors[p] = params[p].value

AdapterDirectoryWritten ==
    /\ adapter_dir.written
    /\ status = "finished"
    /\ DOMAIN adapter_dir.tensors # {}
    /\ DOMAIN adapter_dir.tensors # DOMAIN params

\* C10: trainer_base.evaluate() updates no parameter: every tensor of
\* base_model is the same after the baseline evaluation as before it.
BaselineEvaluationChangesNothing ==
    [][(~results_base.evaluated /\ results_base'.evaluated) => params' = params]_vars

BaselineEvaluated ==
    /\ results_base.evaluated
    /\ pc = "lora_config"
    /\ params = PretrainedParams


WithoutRequests == SelectSeq(chat_requests, LAMBDA r : r.via = "openai")
\* calls of chatbot_without_customization made so far by the loop
WithoutCalls == IF loop.lpc \in {"question", "call_without"} THEN loop.qi - 1 ELSE loop.qi

\* C11: every call of chatbot_without_customization sends exactly one chat
\* request; its only message is the question, verbatim, with nothing from the
\* dataset, the documents or the index in it, so the request is the same
\* whatever the CSV file holds.
WithoutIgnoresDataset ==
    /\ Len(WithoutRequests) = WithoutCalls
    /\ \A i \in 1 .. Len(WithoutRequests) :
          WithoutRequests[i] = [via |-> "openai", question |-> questions[i],
                                context |-> {}, chat_history |-> << >>]

WithoutAnsweredAllQuestions ==
    /\ status = "finished"
    /\ Len(WithoutRequests) = Len(questions)
    /\ Cardinality(documents) = MaxRows
    /\ vectorstore # {}

\* C12: the vector index is built in memory from the documents of this run:
\* FAISS.from_documents receives exactly one document per row of the CSV,
\* with the row's 'text' cell as page content; no step writes an index to
\* disk and none loads one that was saved before.
IndexInMemoryOnly ==
    /\ []("vectorstore" \in defined =>
            /\ vectorstore = { [row |-> r, page_content |-> << r, "text" >>] : r \in df.rows }
            /\ Cardinality(vectorstore) = Cardinality(df.rows)
            /\ vectorstore \cap index_file.docs = {})
    /\ [][index_file' = index_file]_vars

IndexBuiltBesideSavedIndex ==
    /\ "vectorstore" \in defined
    /\ index_file.exists
    /\ Cardinality(vectorstore) = MaxRows

\* the part of string s of length n that starts after its first k characters
Piece(s, k, n) == [i \in 1 .. n |-> s[k + i]]

\* C13: the 'text' cell of a row is Name, ": ", Description, " (", Medium,
\* ", ", Setting, ")" one after the other, each field unchanged; the four
\* source columns keep their values and 'text' is the only column added.
TextIsFieldsInOrder ==
    (call.fn = "concat_text" /\ call.done) =>
        LET row == call.args
            out == call.result
            t == out["text"]
            n == Len(row["Name"])
            d == Len(row["Description"])
            m == Len(row["Medium"])
            g == Len(row["Setting"])
        IN  /\ Len(t) = n + 2 + d + 2 + m + 2 + g + 1
            /\ Piece(t, 0, n) = row["Name"]
            /\ Piece(t, n, 2) = << ":", " " >>
            /\ Piece(t, n + 2, d) = row["Description"]
            /\ Piece(t, n + 2 + d, 2) = << " ", "(" >>
            /\ Piece(t, n + 4 + d, m) = row["Medium"]
            /\ Piece(t, n + 4 + d + m, 2) = << ",", " " >>
            /\ Piece(t, n + 6 + d + m, g) = row["Setting"]
            /\ Piece(t, n + 6 + d + m + g, 1) = << ")" >>
            /\ \A c \in CsvColumns : out[c] = row[c]
            /\ DOMAIN out \ DOMAIN row = {"text"}
            /\ DOMAIN row \subseteq DOMAIN out

TextOfDistinctFields ==
    /\ call.fn = "concat_text"
    /\ call.done
    /\ call.args["Medium"] = << "a" >>
    /\ call.args["Setting"] = << "," >>
    /\ call.args["Name"] = << "a" >>
    /\ call.args["Description"] = << >>

\* the example's logits have one maximum, at class c
UniqueMaxAt(v, c) == \A k \in Classes \ {c} : v[k] < v[c]

\* C14: compute_metrics predicts, for each example, the class whose logit
\* is the maximum: where the maximum is unique the prediction compared with
\* the label is its index; the result has exactly the keys f1_score,
\* precision and recall; predictions and labels are left as they were given.
ArgmaxPredictions ==
    /\ []((call.fn = "compute_metrics" /\ call.done) =>
            /\ DOMAIN call.result.preds = DOMAIN call.args.labels
            /\ \A i \in DOMAIN call.args.predictions : \A c \in Classes :
                  UniqueMaxAt(call.args.predictions[i], c) => call.result.preds[i] = c
            /\ DOMAIN call.result.metrics = {"f1_score", "precision", "recall"})
    /\ [][call.fn = "compute_metrics" => call'.args = call.args]_vars

MetricsOfUniqueMaxima ==
    /\ call.fn = "compute_metrics"
    /\ call.done
    /\ Len(call.args.labels) = MaxExamples
    /\ \A i \in DOMAIN call.args.predictions :
          UniqueMaxAt(call.args.predictions[i], i)
    /\ call.result.preds # call.args.labels

\* the sum of three fractions, one per class
SumByClass(f) == FracAdd(FracAdd(f[0], f[1]), f[2])

\* C15: each of the three metrics is the unweighted mean of the values of
\* the classes that occur in the labels or the predictions, whatever the
\* number of examples of each class; with every prediction equal to its
\* label all three are 1.
MacroAveraged ==
    (call.fn = "compute_metrics" /\ call.done) =>
        LET labels == call.args.labels
            preds == call.result.preds
            I == DOMAIN labels
            S == { c \in Classes : \E i \in I : labels[i] = c \/ preds[i] = c }
            hit == [c \in Classes |-> Cardinality({ i \in I : labels[i] = c /\ preds[i] = c })]
            said == [c \in Classes |-> Cardinality({ i \in I : preds[i] = c })]
            true == [c \in Classes |-> Cardinality({ i \in I : labels[i] = c })]
            Of(n, d) == IF d = 0 THEN << 0, 1 >> ELSE Frac(n, d)
            m == call.result.metrics
        IN  /\ FracScale(Cardinality(S), m.precision)
                  = SumByClass([c \in Classes |-> Of(hit[c], said[c])])
            /\ FracScale(Cardinality(S), m.recall)
                  = SumByClass([c \in Classes |-> Of(hit[c], true[c])])
            /\ FracScale(Cardinality(S), m.f1_score)
                  = SumByClass([c \in Classes |-> Of(2 * hit[c], said[c] + true[c])])
            /\ (\A i \in I : preds[i] = labels[i]) =>
                  /\ m.f1_score = << 1, 1 >>
                  /\ m.precision = << 1, 1 >>
                  /\ m.recall = << 1, 1 >>

\* two examples of class 0 and one of class 1, one of the former mistaken
MetricsOfUnevenClasses ==
    /\ call.fn = "compute_metrics"
    /\ call.done
    /\ call.args.labels = << 0, 0, 1 >>
    /\ call.result.preds = << 0, 1, 1 >>
    /\ call.result.metrics.precision = << 3, 4 >>
    /\ call.result.metrics.recall = << 3, 4 >>

\* C16: after dataset.map every split has as many examples as before, in
\* the same order: example i carries the tokens of the i-th premise and
\* hypothesis and, under 'labels', the i-th original 'label'; none of the
\* original columns remains.
LabelsRenamedColumnsRemoved ==
    (call.fn = "map" /\ call.done) =>
        /\ DOMAIN call.result = DOMAIN call.args
        /\ \A s \in DOMAIN call.args :
              /\ Len(call.result[s]) = Len(call.args[s])
              /\ \A i \in 1 .. Len(call.args[s]) :
                    /\ call.result[s][i].labels = call.args[s][i].label
                    /\ call.result[s][i].input_ids[2] = call.args[s][i].premise
                    /\ call.result[s][i].input_ids[4] = call.args[s][i].hypothesis
                    /\ DOMAIN call.result[s][i] \cap DOMAIN call.args[s][i] = {}
                    /\ "labels" \in DOMAIN call.result[s][i]

SplitsMappedInBatches ==
    /\ call.fn = "map"
    /\ call.done
    /\ Len(call.args["train"]) = MaxSplitLen
    /\ Len(call.args["train"]) > BatchSize
    /\ call.args["train"][1].label # call.args["train"][2].label
    /\ Len(call.args["validation_matched"]) = 1

\* C17: every client constructor (openai.OpenAI, OpenAIEmbeddings,
\* ChatOpenAI) receives as its API key the value that step 3 read from the
\* environment variable OPENAI_API_KEY.
ClientsReceiveKeyOfStep3 ==
    \A c \in api.received :
        /\ "openai_api_key" \in defined
        /\ c.api_key = api.openai_api_key

\* C18: a run is one thread that executes the notebook's steps in order,
\* one at a time, each call returning before the next is made; the only
\* processes beside it are the dataloader_num_workers workers of the
\* training DataLoader, alive only inside trainer.train(); a chat request
\* is sent only when the answer of the previous call has been consumed.
OnlyDataLoaderWorkersInParallel ==
    /\ [](trainer.workers # 0 =>
            /\ notebook = "ft"
            /\ pc = "train"
            /\ trainer.tpc \in {"step", "evaluate", "save"}
            /\ trainer.workers = dataloader_num_workers)
    /\ [][pc' # pc => pc' = NextCell(pc)]_vars
    /\ [][chat_requests' # chat_requests =>
            /\ loop.answer = NoAnswer
            /\ Len(chat_requests') = Len(chat_requests) + 1]_vars

WorkersFeedTraining ==
    /\ pc = "train"
    /\ trainer.workers = dataloader_num_workers
    /\ trainer.global_step > StepsPerEpoch

\* C19: the customized chatbot keeps nothing between calls: the list that is
\* the default of chat_history stays empty, every call starts with a chain
\* that has retrieved nothing, no request condenses a history, and the
\* request for the i-th question holds that question, the documents of its
\* own retrieval and an empty history, whatever was asked before.
NoConversationalState ==
    /\ chat_history = << >>
    /\ loop.lpc = "retrieve" => loop.retrieved = {}
    /\ \A i \in 1 .. Len(chat_requests) : chat_requests[i].via # "condense"
    /\ Len(LangchainRequests) <= Len(retrievals)
    /\ \A i \in 1 .. Len(LangchainRequests) :
          LangchainRequests[i] = [via |-> "langchain", question |-> questions[i],
                                  context |-> retrievals[i].docs, chat_history |-> << >>]

LastQuestionAskedAfresh ==
    /\ Len(LangchainRequests) = Len(questions)
    /\ loop.lpc = "print_with"
    /\ retrievals[1].docs # retrievals[Len(questions)].docs

=============================================================================
